---- MODULE Spec2Model ----
(***************************************************************************)
(* Model of server.js: the socket.io draft-room server.                    *)
(*                                                                         *)
(* State: the two global maps (games, players), socket.io's room           *)
(* membership, the setInterval loops created by startTimerBroadcast, the   *)
(* wall clock read by Date.now(), and what the last handler emitted.       *)
(* Every handler runs to completion (Node's single thread), so each        *)
(* handler is one action.                                                  *)
(***************************************************************************)
EXTENDS Integers, Sequences, FiniteSets, TLC

\* ------------------------------------------------------------------
\* Bounds of the model
\* ------------------------------------------------------------------
\* Date.now() is not allowed to pass this value (milliseconds).
MaxNow == 30200
\* Largest number of live setInterval loops kept for one room code.
MaxLoops == 2
\* Number of events (client messages, timer ticks, clock steps) followed in
\* a run that has one room.
MaxEvents == 6
\* Number of events followed in a run that has come to hold two rooms.
MaxEventsTwoRooms == 4

\* ------------------------------------------------------------------
\* Program constants
\* ------------------------------------------------------------------
\* TIMER_DURATION: 15 (seconds), set in createGame.
TIMER_DURATION == 15
\* Period of the setInterval in startTimerBroadcast (milliseconds).
TICK_MS == 100
\* Seconds to milliseconds, the "* 1000" of startGame and advanceTurn.
MS_PER_SECOND == 1000

\* ------------------------------------------------------------------
\* Inputs
\* ------------------------------------------------------------------
\* Socket ids handed out by socket.io; an id is used by one connection,
\* which is open until it disconnects.
Sockets == {"s1", "s2", "s3"}
\* Values generateRoomCode can return (and values clients can send).
RoomCodes == {"A", "B"}
\* data.playerName: "" stands for a missing or empty name (falsy).
PlayerNames == {""}
\* data.positionId: "constructor" is a key every JS object inherits.
Positions == {"QB", "constructor"}
\* data.playerData: "" stands for a falsy payload ("", 0, null, undefined).
PlayerData == {"X", ""}
\* Amounts of time that may pass between two events (milliseconds).
TimeSteps == {7530, 15000}

Seats == {1, 2, 3}

\* ------------------------------------------------------------------
\* JavaScript values
\* ------------------------------------------------------------------
\* timerEndTime: null. The code only tests the field with "!", and no
\* timestamp it stores is falsy (Date.now() + 15000 is never 0). null is
\* represented by -1, which is no timestamp of the model: the clock starts
\* at 0 and every amount of time is a multiple of 30 ms.
NullTime == -1
\* players[i] === null
NullPlayer == [id |-> "null", name |-> "null", ready |-> FALSE]
\* Keys found on Object.prototype: reading them on {} gives a truthy value.
InheritedKeys == {"constructor"}
\* JS truthiness of a roster payload.
Truthy(v) == v # ""
\* a || b on strings.
OrElse(a, b) == IF Truthy(a) THEN a ELSE b

VARIABLES
    closed,     \* the sockets that have disconnected
    games,      \* Map roomCode -> gameState (a function on the codes present)
    players,    \* Map socket.id -> [playerId, roomId, name]
    members,    \* socket.io rooms: roomCode -> set of sockets that joined it
    intervals,  \* roomCode -> number of live setInterval loops for that code
    now,        \* Date.now()
    out,        \* the emits of the last handler, in order
    last,       \* the last event handled and how it ended
    events      \* how many events have been handled so far

vars == <<closed, games, players, members, intervals, now, out, last, events>>

\* ------------------------------------------------------------------
\* Emits
\* ------------------------------------------------------------------
\* A wrong emit: io.emit(event, data), which reaches every socket.
ToEverySocket(s, event, data) ==
    [to |-> "all", target |-> s, rcpt |-> Sockets, event |-> event,
     data |-> data]

\* socket.emit(event, data)
ToSocket(s, event, data) ==
    [to |-> "socket", target |-> s, rcpt |-> {s}, event |-> event,
     data |-> data]
\* io.to(roomCode).emit(event, data): delivered to the sockets in the room.
ToRoom(mem, roomCode, event, data) ==
    [to |-> "room", target |-> roomCode, rcpt |-> mem[roomCode],
     event |-> event, data |-> data]

\* ------------------------------------------------------------------
\* Helpers
\* ------------------------------------------------------------------
\* generateRoomCode(): a random code; nothing relates it to the codes in
\* use, so it is a code of an existing room or a code not in use. Codes
\* not in use are interchangeable: the first of them stands for all.
CodeOrder == <<"A", "B">>
generateRoomCode(g) ==
    {CodeOrder[i] : i \in {i \in DOMAIN CodeOrder :
        \/ CodeOrder[i] \in DOMAIN g
        \/ \A j \in 1..(i - 1) : CodeOrder[j] \in DOMAIN g}}

\* The gameState object literal of createGame.
NewGameState(roomCode, s, playerName) ==
    [roomCode |-> roomCode,
     players |-> (1 :> [id |-> s, name |-> OrElse(playerName, "Player 1"),
                        ready |-> FALSE]
                  @@ 2 :> NullPlayer @@ 3 :> NullPlayer),
     rosters |-> [i \in Seats |-> <<>>],
     currentTurn |-> 1,
     timerEndTime |-> NullTime,
     TIMER_DURATION |-> TIMER_DURATION]

\* games.set(roomCode, gameState) / players.set(id, record)
MapSet(m, k, v) == [x \in (DOMAIN m) \cup {k} |-> IF x = k THEN v ELSE m[x]]
\* players.delete(id)
MapDelete(m, k) == [x \in (DOMAIN m) \ {k} |-> m[x]]

\* gameState.rosters[playerId][positionId] as JS reads it: an own key gives
\* the stored value, an inherited key a truthy object, anything else
\* undefined (falsy).
RosterFilled(roster, positionId) ==
    IF positionId \in DOMAIN roster THEN Truthy(roster[positionId])
    ELSE positionId \in InheritedKeys

\* A wrong store: the selection is dropped, the roster stays as it was.
RosterKeep(roster, positionId, playerData) == roster

\* gameState.rosters[playerId][positionId] = playerData
RosterPut(roster, positionId, playerData) ==
    [p \in (DOMAIN roster) \cup {positionId} |->
        IF p = positionId THEN playerData ELSE roster[p]]

\* A wrong successor: the wrap is taken one seat too early.
NextTurnEarlyWrap(cur) == IF cur >= 2 THEN 1 ELSE cur + 1

\* A wrong successor: the turn never wraps back to seat 1.
NextTurnNoWrap(cur) == cur + 1

\* gameState.currentTurn === 3 ? 1 : gameState.currentTurn + 1
NextTurn(cur) == IF cur = 3 THEN 1 ELSE cur + 1

\* A wrong advance: the turn moves on but the deadline is left as it was.
advanceTurnKeepDeadline(g, roomCode, t) ==
    IF roomCode \notin DOMAIN g THEN g
    ELSE [g EXCEPT ![roomCode].currentTurn = NextTurn(g[roomCode].currentTurn)]

\* A wrong advance: the new deadline is the present instant.
advanceTurnDeadlineNow(g, roomCode, t) ==
    IF roomCode \notin DOMAIN g THEN g
    ELSE [g EXCEPT ![roomCode].currentTurn = NextTurn(g[roomCode].currentTurn),
                   ![roomCode].timerEndTime = t]

\* A wrong advance: the deadline is reset but the turn stays where it was.
advanceTurnKeepTurn(g, roomCode, t) ==
    IF roomCode \notin DOMAIN g THEN g
    ELSE [g EXCEPT ![roomCode].timerEndTime =
                       t + g[roomCode].TIMER_DURATION * MS_PER_SECOND]

\* advanceTurn(roomCode): the games map after the call, made at time t.
advanceTurn(g, roomCode, t) ==
    IF roomCode \notin DOMAIN g THEN g
    ELSE [g EXCEPT ![roomCode].currentTurn = NextTurn(g[roomCode].currentTurn),
                   ![roomCode].timerEndTime =
                       t + g[roomCode].TIMER_DURATION * MS_PER_SECOND]

\* What advanceTurn(roomCode) emits; g2 is the map after the call.
advanceTurnEmits(g2, mem, roomCode) ==
    IF roomCode \notin DOMAIN g2 THEN <<>>
    ELSE <<ToRoom(mem, roomCode, "turnChanged",
                  [currentTurn |-> g2[roomCode].currentTurn,
                   timerEndTime |-> g2[roomCode].timerEndTime])>>

\* A wrong remaining time: the difference is not clamped at 0.
TimeRemainingUnclamped(gameState, t) == gameState.timerEndTime - t

\* Math.max(0, gameState.timerEndTime - Date.now())
TimeRemaining(gameState, t) ==
    IF gameState.timerEndTime - t > 0 THEN gameState.timerEndTime - t ELSE 0

\* A wrong slot search: it scans from seat 3 down.
FirstEmptySlotFromTop(gameState) ==
    IF gameState.players[3] = NullPlayer THEN 3 ELSE 2

\* The "find first empty slot" loop of joinGame: the lowest i in 2..3 with
\* players[i] === null (called only when there is one).
FirstEmptySlot(gameState) ==
    IF gameState.players[2] = NullPlayer THEN 2 ELSE 3

\* `Player ${playerId}`
PlayerN(playerId) ==
    IF playerId = 1 THEN "Player 1"
    ELSE IF playerId = 2 THEN "Player 2" ELSE "Player 3"

\* A turn test that lets every seat through.
IsCurrentTurnAnySeat(gameState, playerId) == gameState.currentTurn \in Seats

\* gameState.currentTurn === playerId, the turn test of selectPlayer (there
\* negated, !==) and of skipTurn.
IsCurrentTurn(gameState, playerId) == gameState.currentTurn = playerId

\* A wrong disconnect: it also passes the turn on when the leaver held it.
vacateSeatAndPassTurn(g, player) ==
    [g EXCEPT ![player.roomId].players[player.playerId] = NullPlayer,
              ![player.roomId].currentTurn =
                  IF @ = player.playerId THEN NextTurn(@) ELSE @]

\* gameState.players[player.playerId] = null, in the disconnect handler.
vacateSeat(g, player) ==
    [g EXCEPT ![player.roomId].players[player.playerId] = NullPlayer]

\* startTimerBroadcast(roomCode): one more setInterval loop for the code.
startTimerBroadcast(iv, roomCode) == [iv EXCEPT ![roomCode] = @ + 1]

\* The record kept of an event: the handler, the socket and the data it
\* was called with, and the way it ended.
Event(op, s, roomCode, positionId, playerData, result) ==
    [op |-> op, socket |-> s, roomCode |-> roomCode, positionId |-> positionId,
     playerData |-> playerData, result |-> result]

\* The record of an event that carries no position and no payload.
Ev(op, s, roomCode, result) == Event(op, s, roomCode, "null", "null", result)

\* ------------------------------------------------------------------
\* Initial state: the server has just started listening.
\* ------------------------------------------------------------------
Init ==
    /\ closed = {}
    /\ games = <<>>
    /\ players = <<>>
    /\ members = [r \in RoomCodes |-> {}]
    /\ intervals = [r \in RoomCodes |-> 0]
    /\ now = 0
    /\ out = <<>>
    /\ last = Ev("listen", "null", "null", "ok")
    /\ events = 0

\* A run is followed while it is within its number of events.
CanHandle ==
    events < (IF Cardinality(DOMAIN games) > 1 THEN MaxEventsTwoRooms
              ELSE MaxEvents)

\* Bookkeeping of an event that changed the server's state.
Done(e) ==
    /\ events' = events + 1
    /\ last' = e

\* Bookkeeping of an event that changed nothing (a message rejected or
\* ignored, a tick that only reports the time): every continuation of the
\* run is a continuation of the run without it, so the run ends here.
Dropped(e) ==
    /\ events' = MaxEvents
    /\ last' = e

\* Socket ids are fresh and interchangeable until the connection has
\* entered a room or closed: the ids are named in that order. Open(s) is
\* a connection that can deliver a message now.
SocketOrder == <<"s1", "s2", "s3">>
Known(s) == s \in closed \/ \E r \in RoomCodes : s \in members[r]
Open(s) ==
    /\ s \notin closed
    /\ \E i \in DOMAIN SocketOrder :
         /\ SocketOrder[i] = s
         /\ Known(s) \/ \A j \in 1..(i - 1) : Known(SocketOrder[j])

\* socket.on('createGame')
createGame(s, playerName) ==
    /\ CanHandle
    /\ Open(s)
    /\ \E roomCode \in generateRoomCode(games) :
         LET gameState == NewGameState(roomCode, s, playerName) IN
         /\ games' = MapSet(games, roomCode, gameState)
         /\ members' = [members EXCEPT ![roomCode] = @ \cup {s}]
         /\ players' = MapSet(players, s,
                [playerId |-> 1, roomId |-> roomCode, name |-> playerName])
         /\ out' = <<ToSocket(s, "gameCreated",
                        [roomCode |-> roomCode, playerId |-> 1,
                         gameState |-> gameState])>>
         /\ Done(Ev("createGame", s, roomCode, "ok"))
    /\ UNCHANGED <<closed, intervals, now>>

\* socket.on('joinGame')
joinGame(s, roomCode, playerName) ==
    /\ CanHandle
    /\ Open(s)
    /\ IF roomCode \notin DOMAIN games
       THEN /\ out' = <<ToSocket(s, "error", "Room not found")>>
            /\ Dropped(Ev("joinGame", s, roomCode, "Room not found"))
            /\ UNCHANGED <<games, players, members>>
       ELSE LET gameState == games[roomCode]
                empty == {i \in {2, 3} : gameState.players[i] = NullPlayer}
            IN
            IF empty = {}
            THEN /\ out' = <<ToSocket(s, "error", "Room is full")>>
                 /\ Dropped(Ev("joinGame", s, roomCode, "Room is full"))
                 /\ UNCHANGED <<games, players, members>>
            ELSE LET playerId == FirstEmptySlot(gameState)
                     g2 == [games EXCEPT ![roomCode].players[playerId] =
                              [id |-> s,
                               name |-> OrElse(playerName, PlayerN(playerId)),
                               ready |-> FALSE]]
                     m2 == [members EXCEPT ![roomCode] = @ \cup {s}]
                 IN
                 /\ games' = g2
                 /\ members' = m2
                 /\ players' = MapSet(players, s,
                        [playerId |-> playerId, roomId |-> roomCode,
                         name |-> playerName])
                 /\ out' = <<ToSocket(s, "gameJoined",
                                [playerId |-> playerId,
                                 gameState |-> g2[roomCode]]),
                             ToRoom(m2, roomCode, "playerJoined",
                                [playerId |-> playerId,
                                 gameState |-> g2[roomCode]])>>
                 /\ Done(Ev("joinGame", s, roomCode, "ok"))
    /\ UNCHANGED <<closed, intervals, now>>

\* socket.on('startGame'), startTimerBroadcast included.
startGame(s, roomCode) ==
    /\ CanHandle
    /\ Open(s)
    /\ IF roomCode \notin DOMAIN games
       THEN /\ out' = <<>>
            /\ Dropped(Ev("startGame", s, roomCode, "ignored"))
            /\ UNCHANGED <<games, intervals>>
       ELSE LET g2 == [games EXCEPT
                         ![roomCode].timerEndTime =
                             now + games[roomCode].TIMER_DURATION
                                   * MS_PER_SECOND,
                         ![roomCode].currentTurn = 1]
            IN
            /\ intervals[roomCode] < MaxLoops
            /\ games' = g2
            /\ out' = <<ToRoom(members, roomCode, "gameStarted",
                           [gameState |-> g2[roomCode],
                            timerEndTime |-> g2[roomCode].timerEndTime])>>
            /\ intervals' = startTimerBroadcast(intervals, roomCode)
            /\ Done(Ev("startGame", s, roomCode, "ok"))
    /\ UNCHANGED <<closed, players, members, now>>

\* socket.on('selectPlayer')
selectPlayer(s, roomCode, positionId, playerData) ==
    /\ CanHandle
    /\ Open(s)
    /\ IF roomCode \notin DOMAIN games \/ s \notin DOMAIN players
       THEN /\ out' = <<>>
            /\ Dropped(Event("selectPlayer", s, roomCode, positionId,
                             playerData, "ignored"))
            /\ UNCHANGED games
       ELSE LET gameState == games[roomCode]
                playerId == players[s].playerId
            IN
            IF ~IsCurrentTurn(gameState, playerId)
            THEN /\ out' = <<ToSocket(s, "error", "Not your turn")>>
                 /\ Dropped(Event("selectPlayer", s, roomCode, positionId,
                                  playerData, "Not your turn"))
                 /\ UNCHANGED games
            ELSE IF RosterFilled(gameState.rosters[playerId], positionId)
            THEN /\ out' = <<ToSocket(s, "error", "Position already filled")>>
                 /\ Dropped(Event("selectPlayer", s, roomCode, positionId,
                                  playerData, "Position already filled"))
                 /\ UNCHANGED games
            ELSE LET g1 == [games EXCEPT ![roomCode].rosters[playerId] =
                              RosterPut(@, positionId, playerData)]
                     g2 == advanceTurn(g1, roomCode, now)
                 IN
                 /\ games' = g2
                 /\ out' = <<ToRoom(members, roomCode, "playerSelected",
                                [playerId |-> playerId,
                                 positionId |-> positionId,
                                 playerData |-> playerData,
                                 rosters |-> g1[roomCode].rosters])>>
                            \o advanceTurnEmits(g2, members, roomCode)
                 /\ Done(Event("selectPlayer", s, roomCode, positionId,
                               playerData, "ok"))
    /\ UNCHANGED <<closed, players, members, intervals, now>>

\* socket.on('skipTurn')
skipTurn(s, roomCode) ==
    /\ CanHandle
    /\ Open(s)
    /\ IF roomCode \notin DOMAIN games \/ s \notin DOMAIN players
       THEN /\ out' = <<>>
            /\ Dropped(Ev("skipTurn", s, roomCode, "ignored"))
            /\ UNCHANGED games
       ELSE IF IsCurrentTurn(games[roomCode], players[s].playerId)
            THEN LET g2 == advanceTurn(games, roomCode, now) IN
                 /\ games' = g2
                 /\ out' = advanceTurnEmits(g2, members, roomCode)
                            \o <<ToRoom(members, roomCode, "turnSkipped",
                                    [gameState |-> g2[roomCode]])>>
                 /\ Done(Ev("skipTurn", s, roomCode, "ok"))
            ELSE /\ out' = <<>>
                 /\ Dropped(Ev("skipTurn", s, roomCode, "not current"))
                 /\ UNCHANGED games
    /\ UNCHANGED <<closed, players, members, intervals, now>>

\* socket.on('disconnect'). socket.io takes the socket out of its rooms
\* before it runs the handler, so the socket is not among the recipients.
disconnect(s) ==
    /\ CanHandle
    /\ Open(s)
    /\ closed' = closed \cup {s}
    /\ members' = [r \in RoomCodes |-> members[r] \ {s}]
    /\ IF s \in DOMAIN players
       THEN LET player == players[s] IN
            /\ IF player.roomId \in DOMAIN games
               THEN /\ games' = vacateSeat(games, player)
                    /\ out' = <<ToRoom(members', player.roomId,
                                   "playerDisconnected",
                                   [playerId |-> player.playerId,
                                    gameState |-> games'[player.roomId]])>>
               ELSE /\ out' = <<>>
                    /\ UNCHANGED games
            /\ players' = MapDelete(players, s)
            /\ Done(Ev("disconnect", s, player.roomId, "ok"))
       ELSE /\ out' = <<>>
            /\ Done(Ev("disconnect", s, "null", "no record"))
            /\ UNCHANGED <<games, players>>
    /\ UNCHANGED <<intervals, now>>

\* One run of the setInterval callback of a loop started for roomCode.
timerTick(roomCode) ==
    /\ CanHandle
    /\ intervals[roomCode] > 0
    /\ IF roomCode \notin DOMAIN games
          \/ games[roomCode].timerEndTime = NullTime
       THEN \* clearInterval(interval)
            /\ intervals' = [intervals EXCEPT ![roomCode] = @ - 1]
            /\ out' = <<>>
            /\ Done(Ev("timerTick", "null", roomCode, "cleared"))
            /\ UNCHANGED games
       ELSE LET gameState == games[roomCode]
                timeRemaining == TimeRemaining(gameState, now)
                update == ToRoom(members, roomCode, "timerUpdate",
                             [timeRemaining |-> timeRemaining,
                              currentTurn |-> gameState.currentTurn])
            IN
            /\ IF timeRemaining <= 0
               THEN LET g2 == advanceTurn(games, roomCode, now) IN
                    /\ games' = g2
                    /\ out' = <<update>>
                               \o advanceTurnEmits(g2, members, roomCode)
                    /\ Done(Ev("timerTick", "null", roomCode, "expired"))
               ELSE /\ out' = <<update>>
                    /\ Dropped(Ev("timerTick", "null", roomCode, "running"))
                    /\ UNCHANGED games
            /\ UNCHANGED intervals
    /\ UNCHANGED <<closed, players, members, now>>

\* The loops run every TICK_MS: a loop that has something to do (an expired
\* deadline to act on, or itself to clear) does it before TICK_MS have
\* passed since that became due.
TickDue(roomCode, t) ==
    /\ intervals[roomCode] > 0
    /\ \/ roomCode \notin DOMAIN games
       \/ games[roomCode].timerEndTime = NullTime
       \/ t >= games[roomCode].timerEndTime + TICK_MS

\* Date.now() moves on by d milliseconds.
timePasses(d) ==
    /\ CanHandle
    /\ now + d <= MaxNow
    /\ \A r \in RoomCodes : ~TickDue(r, now + d)
    /\ now' = now + d
    /\ out' = <<>>
    /\ Done(Ev("timePasses", "null", "null", "ok"))
    /\ UNCHANGED <<closed, games, players, members, intervals>>

Next ==
    \/ \E s \in Sockets, n \in PlayerNames : createGame(s, n)
    \/ \E s \in Sockets, r \in RoomCodes, n \in PlayerNames : joinGame(s, r, n)
    \/ \E s \in Sockets, r \in RoomCodes : startGame(s, r)
    \/ \E s \in Sockets, r \in RoomCodes, p \in Positions, d \in PlayerData :
          selectPlayer(s, r, p, d)
    \/ \E s \in Sockets, r \in RoomCodes : skipTurn(s, r)
    \/ \E s \in Sockets : disconnect(s)
    \/ \E r \in RoomCodes : timerTick(r)
    \/ \E d \in TimeSteps : timePasses(d)

Spec == Init /\ [][Next]_vars

\* ------------------------------------------------------------------
\* Vocabulary of the properties
\* ------------------------------------------------------------------
\* The event of a step is last'; these read it in the state before the step.

\* The event made a turn advance: a selection, a skip or a countdown expiry.
IsAdvance(e) ==
    \/ e.op = "selectPlayer" /\ e.result = "ok"
    \/ e.op = "skipTurn" /\ e.result = "ok"
    \/ e.op = "timerTick" /\ e.result = "expired"

\* The cyclic order of the seats, written out.
CyclicSuccessor == (1 :> 2) @@ (2 :> 3) @@ (3 :> 1)

\* The event is a message from a connection that has a participant record,
\* naming a room that exists.
FromParticipant(e) ==
    /\ e.roomCode \in DOMAIN games
    /\ e.socket \in DOMAIN players

\* The event is a selectPlayer or skipTurn from a connection whose seat is
\* not the room's currentTurn.
OutOfTurn(e) ==
    /\ e.op \in {"selectPlayer", "skipTurn"}
    /\ FromParticipant(e)
    /\ players[e.socket].playerId # games[e.roomCode].currentTurn

\* The one emit of a rejected message: the error, to the sender alone.
ErrorTo(s, message) ==
    <<[to |-> "socket", target |-> s, rcpt |-> {s}, event |-> "error",
       data |-> message]>>

\* The step left the rooms, the participant index, the room membership
\* and the countdown loops as they were.
NothingChanged ==
    /\ games' = games
    /\ players' = players
    /\ members' = members
    /\ intervals' = intervals

\* ------------------------------------------------------------------
\* C1
\* ------------------------------------------------------------------
\* C1: every turn advance, whatever its cause (a successful selectPlayer, a
\* skipTurn by the current seat, a countdown expiry), moves the room's
\* currentTurn to its cyclic successor: 1 to 2, 2 to 3, 3 to 1.
C1_TurnCycles ==
    [][IsAdvance(last') =>
          /\ last'.roomCode \in DOMAIN games
          /\ games'[last'.roomCode].currentTurn =
                CyclicSuccessor[games[last'.roomCode].currentTurn]]_vars

\* An advance has just wrapped the turn from seat 3 to seat 1.
C1_Witness ==
    /\ IsAdvance(last)
    /\ games[last.roomCode].currentTurn = 1

\* ------------------------------------------------------------------
\* C2
\* ------------------------------------------------------------------
\* C2 as stated: a selectPlayer or skipTurn from a connection whose seat is
\* not currentTurn fails with 'Not your turn' sent to that connection,
\* changes nothing and broadcasts nothing.
C2_AsStated ==
    [][OutOfTurn(last') =>
          /\ out' = ErrorTo(last'.socket, "Not your turn")
          /\ NothingChanged]_vars

\* C2, amended: out of turn, a selectPlayer fails with 'Not your turn' sent
\* to the sender alone and a skipTurn is ignored without any emit; either
\* way nothing in the server's state changes and the room gets no broadcast.
C2_TurnGating ==
    [][OutOfTurn(last') =>
          /\ out' = IF last'.op = "selectPlayer"
                    THEN ErrorTo(last'.socket, "Not your turn")
                    ELSE <<>>
          /\ NothingChanged]_vars

\* A seat that is not the current one has just tried to select.
C2_Witness ==
    /\ OutOfTurn(last)
    /\ last.op = "selectPlayer"
    /\ out = ErrorTo(last.socket, "Not your turn")

\* ------------------------------------------------------------------
\* C3
\* ------------------------------------------------------------------
\* The event is a selectPlayer by the current seat on a position that a
\* selectPlayer has already set in that seat's roster.
OnSetPosition(e) ==
    /\ e.op = "selectPlayer"
    /\ FromParticipant(e)
    /\ players[e.socket].playerId = games[e.roomCode].currentTurn
    /\ e.positionId \in
          DOMAIN games[e.roomCode].rosters[players[e.socket].playerId]

\* C3: once rosters[seat][positionId] has been set by a selectPlayer,
\* whatever the payload, a later selectPlayer by that seat on that position,
\* made on its turn, fails with 'Position already filled' and leaves the
\* payload, the turn and the deadline as they were.
C3_AtMostOneFill ==
    [][OnSetPosition(last') =>
          /\ out' = ErrorTo(last'.socket, "Position already filled")
          /\ NothingChanged]_vars

\* ------------------------------------------------------------------
\* C4
\* ------------------------------------------------------------------
\* C4: a roster position that has been filled keeps its payload in every
\* later state of the room: no event overwrites it or clears it.
C4_FilledStaysFilled ==
    [][\A r \in DOMAIN games : \A i \in Seats :
          \A p \in DOMAIN games[r].rosters[i] :
             /\ r \in DOMAIN games'
             /\ p \in DOMAIN games'[r].rosters[i]
             /\ games'[r].rosters[i][p] = games[r].rosters[i][p]]_vars

\* ------------------------------------------------------------------
\* C5
\* ------------------------------------------------------------------
\* The seats among 2 and 3 of a room that nobody holds.
EmptyJoinSeats(r) == {i \in {2, 3} : games[r].players[i] = NullPlayer}

\* The least member of a set of seats.
LeastSeat(S) == CHOOSE i \in S : \A j \in S : i <= j

\* C5: joinGame on an existing room gives the joiner the lowest-numbered
\* empty seat among 2 and 3, never seat 1, and touches no other seat; with
\* seats 2 and 3 both held it fails with 'Room is full' and leaves the
\* seats and the participant index as they were.
C5_JoinSeat ==
    [][(last'.op = "joinGame" /\ last'.roomCode \in DOMAIN games) =>
          LET r == last'.roomCode
              s == last'.socket
              free == EmptyJoinSeats(r)
          IN
          IF free = {}
          THEN /\ out' = ErrorTo(s, "Room is full")
               /\ games' = games
               /\ players' = players
          ELSE LET k == LeastSeat(free) IN
               /\ k # 1
               /\ games'[r].players[k].id = s
               /\ \A i \in Seats \ {k} :
                     games'[r].players[i] = games[r].players[i]
               /\ players'[s].playerId = k
               /\ players'[s].roomId = r]_vars

\* A join has just been turned away from a room whose seats 2 and 3 are
\* held.
C5_Witness ==
    /\ last.op = "joinGame"
    /\ last.roomCode \in DOMAIN games
    /\ EmptyJoinSeats(last.roomCode) = {}
    /\ out = ErrorTo(last.socket, "Room is full")

\* ------------------------------------------------------------------
\* C6
\* ------------------------------------------------------------------
\* The event is a countdown tick of a room that exists and has a deadline.
TickOfRunningRoom(e) ==
    /\ e.op = "timerTick"
    /\ e.roomCode \in DOMAIN games
    /\ games[e.roomCode].timerEndTime # NullTime

\* C6: a countdown tick advances the turn if and only if the deadline has
\* expired, and then by one seat, and it puts the deadline a full turn
\* duration ahead, so that no tick of any loop of the room advances the
\* turn again before that new deadline expires.
C6_OncePerExpiry ==
    [][TickOfRunningRoom(last') =>
          LET r == last'.roomCode IN
          IF games[r].timerEndTime <= now
          THEN /\ games'[r].currentTurn =
                     CyclicSuccessor[games[r].currentTurn]
               /\ games'[r].timerEndTime - now' = 15000
               /\ games'[r].timerEndTime > now'
          ELSE games' = games]_vars

\* A deadline has just expired in a room that runs two countdown loops,
\* and the tick that saw it advanced the turn.
C6_Witness ==
    /\ last.op = "timerTick"
    /\ last.result = "expired"
    /\ intervals[last.roomCode] = 2
    /\ games[last.roomCode].currentTurn = 2
    /\ games[last.roomCode].timerEndTime > now

\* ------------------------------------------------------------------
\* C7
\* ------------------------------------------------------------------
\* C7: at most one countdown loop is live for a room code at any time,
\* after any number of startGame events.
C7_OneLoopPerRoom == \A r \in RoomCodes : intervals[r] <= 1

\* ------------------------------------------------------------------
\* C8
\* ------------------------------------------------------------------
\* C8: createGame yields a code that no registered room has, and leaves
\* every registered RoomState in place.
C8_FreshRoomCode ==
    [][last'.op = "createGame" =>
          /\ last'.roomCode \notin DOMAIN games
          /\ \A r \in DOMAIN games :
                r \in DOMAIN games' /\ games'[r] = games[r]]_vars

\* ------------------------------------------------------------------
\* C9
\* ------------------------------------------------------------------
\* The error the four rejections call for, read before the step: "none"
\* when the event is none of them.
ExpectedError(e) ==
    IF e.op = "joinGame" /\ e.roomCode \notin DOMAIN games
    THEN "Room not found"
    ELSE IF e.op = "joinGame" /\ EmptyJoinSeats(e.roomCode) = {}
    THEN "Room is full"
    ELSE IF e.op = "selectPlayer" /\ OutOfTurn(e)
    THEN "Not your turn"
    ELSE IF /\ OnSetPosition(e)
            /\ games[e.roomCode].rosters[players[e.socket].playerId]
                  [e.positionId] # ""
    THEN "Position already filled"
    ELSE "none"

\* C9: a rejected action (joinGame on an unknown or full room, selectPlayer
\* out of turn or on a filled position) sends its error to the sender alone
\* and nothing to anyone else, and leaves the rooms, the participant index
\* and the countdown loops as they were; and no error is ever emitted in
\* any other way.
C9_RejectionsAreLocal ==
    [][/\ ExpectedError(last') # "none" =>
             /\ out' = ErrorTo(last'.socket, ExpectedError(last'))
             /\ NothingChanged
       /\ (\E i \in DOMAIN out' : out'[i].event = "error") =>
             /\ Len(out') = 1
             /\ out'[1].to = "socket"
             /\ out'[1].rcpt = {last'.socket}
             /\ NothingChanged]_vars

\* A selectPlayer on a filled position has just been rejected in a room
\* whose countdown is running.
C9_Witness ==
    /\ last.roomCode \in DOMAIN games
    /\ ExpectedError(last) = "Position already filled"
    /\ out = ErrorTo(last.socket, "Position already filled")
    /\ intervals[last.roomCode] > 0

\* ------------------------------------------------------------------
\* C10
\* ------------------------------------------------------------------
\* Connection s holds the seat its participant record names.
Seated(s) ==
    /\ s \in DOMAIN players
    /\ players[s].roomId \in DOMAIN games
    /\ games[players[s].roomId].players[players[s].playerId].id = s

\* C10: the disconnect of a seated connection empties its seat, deletes its
\* participant record and broadcasts playerDisconnected to the room; the
\* room stays registered and its currentTurn, deadline, rosters, other
\* seats and countdown loops, like every other room, stay as they were.
C10_DisconnectFrame ==
    [][(last'.op = "disconnect" /\ Seated(last'.socket)) =>
          LET s == last'.socket
              r == players[s].roomId
              k == players[s].playerId
          IN
          /\ r \in DOMAIN games'
          /\ games'[r].players[k] = NullPlayer
          /\ s \notin DOMAIN players'
          /\ Len(out') = 1
          /\ out'[1].to = "room"
          /\ out'[1].target = r
          /\ out'[1].event = "playerDisconnected"
          /\ out'[1].data.playerId = k
          /\ games'[r].currentTurn = games[r].currentTurn
          /\ games'[r].timerEndTime = games[r].timerEndTime
          /\ games'[r].rosters = games[r].rosters
          /\ \A i \in Seats \ {k} :
                games'[r].players[i] = games[r].players[i]
          /\ intervals' = intervals
          /\ DOMAIN games' = DOMAIN games
          /\ \A q \in DOMAIN games \ {r} : games'[q] = games[q]]_vars

\* The only connection a started room ever had has just disconnected in the
\* middle of its own turn: every seat is empty, the turn is still seat 1's
\* and the countdown still runs.
C10_Witness ==
    /\ last.op = "disconnect"
    /\ last.roomCode \in DOMAIN games
    /\ closed = {last.socket}
    /\ members[last.roomCode] = {}
    /\ \A i \in Seats : games[last.roomCode].players[i] = NullPlayer
    /\ games[last.roomCode].currentTurn = 1
    /\ games[last.roomCode].timerEndTime # NullTime
    /\ intervals[last.roomCode] > 0

\* ------------------------------------------------------------------
\* C11
\* ------------------------------------------------------------------
\* The broadcast of event to room r, whatever it carries.
IsBroadcast(m, r, event) ==
    /\ m.to = "room"
    /\ m.target = r
    /\ m.event = event

\* C11: a successful selectPlayer is made by a connection whose seat is the
\* room's currentTurn; it stores the payload in rosters[seat][positionId]
\* and leaves every other roster entry alone, moves currentTurn to the next
\* seat, puts the deadline a full turn duration after the present, and
\* sends the room exactly two broadcasts: playerSelected (with the rosters
\* that hold the payload) first, turnChanged (with the new turn and the new
\* deadline) second.
C11_SelectThenAdvance ==
    [][(last'.op = "selectPlayer" /\ last'.result = "ok") =>
          LET r == last'.roomCode
              s == last'.socket
              p == last'.positionId
              k == players[s].playerId
          IN
          /\ FromParticipant(last')
          /\ k = games[r].currentTurn
          /\ p \in DOMAIN games'[r].rosters[k]
          /\ games'[r].rosters[k][p] = last'.playerData
          /\ \A i \in Seats : \A q \in DOMAIN games[r].rosters[i] :
                (i # k \/ q # p) =>
                   /\ q \in DOMAIN games'[r].rosters[i]
                   /\ games'[r].rosters[i][q] = games[r].rosters[i][q]
          /\ \A i \in Seats \ {k} :
                DOMAIN games'[r].rosters[i] = DOMAIN games[r].rosters[i]
          /\ DOMAIN games'[r].rosters[k] =
                DOMAIN games[r].rosters[k] \cup {p}
          /\ games'[r].currentTurn = CyclicSuccessor[k]
          /\ games'[r].timerEndTime = now' + 15000
          /\ Len(out') = 2
          /\ IsBroadcast(out'[1], r, "playerSelected")
          /\ out'[1].data.playerId = k
          /\ out'[1].data.positionId = p
          /\ out'[1].data.playerData = last'.playerData
          /\ out'[1].data.rosters = games'[r].rosters
          /\ IsBroadcast(out'[2], r, "turnChanged")
          /\ out'[2].data.currentTurn = games'[r].currentTurn
          /\ out'[2].data.timerEndTime = games'[r].timerEndTime]_vars

\* Seat 1 of a started room has just selected "X" for "QB", some time into
\* its turn: the roster holds it, the turn is seat 2's, the deadline is a
\* full turn duration ahead, and the two broadcasts went out in order.
C11_Witness ==
    /\ last.op = "selectPlayer"
    /\ last.result = "ok"
    /\ last.positionId = "QB"
    /\ now > 0
    /\ intervals[last.roomCode] > 0
    /\ games[last.roomCode].rosters[1] = ("QB" :> "X")
    /\ games[last.roomCode].currentTurn = 2
    /\ games[last.roomCode].timerEndTime = now + 15000
    /\ Len(out) = 2
    /\ out[1].event = "playerSelected"
    /\ out[2].event = "turnChanged"

\* ------------------------------------------------------------------
\* C12
\* ------------------------------------------------------------------
\* Connection s has a participant record that is bound to room r.
BoundTo(s, r) ==
    /\ s \in DOMAIN players
    /\ players[s].roomId = r

\* C12: a selectPlayer or skipTurn that names room R and comes from a
\* connection whose participant record is not bound to R (it is bound to
\* another room, or there is none) leaves R's rosters, currentTurn and
\* deadline as they were.
C12_OnlySeatedSendersAct ==
    [][(/\ last'.op \in {"selectPlayer", "skipTurn"}
        /\ last'.roomCode \in DOMAIN games
        /\ ~BoundTo(last'.socket, last'.roomCode)) =>
          LET r == last'.roomCode IN
          /\ games'[r].rosters = games[r].rosters
          /\ games'[r].currentTurn = games[r].currentTurn
          /\ games'[r].timerEndTime = games[r].timerEndTime]_vars

\* ------------------------------------------------------------------
\* C13
\* ------------------------------------------------------------------
\* The event called advanceTurn or ran startGame on a room that exists.
SetsDeadline(e) ==
    \/ IsAdvance(e)
    \/ e.op = "startGame" /\ e.result = "ok"

\* C13: every advanceTurn and every startGame sets the room's deadline to
\* the time of the call plus 15 seconds (the room's TIMER_DURATION, which
\* is always 15), a value strictly greater than the time of the call.
C13_DeadlineInFuture ==
    [][SetsDeadline(last') =>
          LET r == last'.roomCode IN
          /\ games'[r].TIMER_DURATION = 15
          /\ games'[r].timerEndTime = now' + 15 * 1000
          /\ games'[r].timerEndTime > now']_vars

\* A countdown expiry has just called advanceTurn after the deadline had
\* already passed: the new deadline is counted from the present, not from
\* the old deadline.
C13_Witness ==
    /\ last.op = "timerTick"
    /\ last.result = "expired"
    /\ now > 15000
    /\ games[last.roomCode].timerEndTime = now + 15000

\* ------------------------------------------------------------------
\* C14
\* ------------------------------------------------------------------
\* Connection c is live and its participant record names seat i of room r.
IndexedAt(c, r, i) ==
    /\ c \notin closed
    /\ BoundTo(c, r)
    /\ players[c].playerId = i

\* C14: in every state, seat i of room r is held by connection c if and
\* only if c is a live connection whose participant record names room r and
\* seat i; so no connection holds two seats and no seat is held by a
\* connection that has disconnected.
C14_IndexAndSeatsInLockstep ==
    \A r \in DOMAIN games : \A i \in Seats : \A c \in Sockets :
        games[r].players[i].id = c <=> IndexedAt(c, r, i)

\* ------------------------------------------------------------------
\* C15
\* ------------------------------------------------------------------
\* C15: in every state, a room that has no countdown loop (startGame was
\* never performed on it) has no deadline.
C15_DeadlineOnlyWhileActive ==
    \A r \in DOMAIN games :
        intervals[r] = 0 => games[r].timerEndTime = NullTime

\* ------------------------------------------------------------------
\* C17
\* ------------------------------------------------------------------
\* max(0, a)
AtLeastZero(a) == IF a > 0 THEN a ELSE 0

\* C17: every countdown tick of a room that has a deadline broadcasts, as
\* its first emit, a timerUpdate that carries max(0, deadline - now) and
\* the currentTurn of before the tick; the tick runs advanceTurn if and
\* only if that remaining time is 0, and then the turnChanged broadcast
\* follows the timerUpdate; otherwise the timerUpdate is all the tick does.
C17_TickBroadcast ==
    [][TickOfRunningRoom(last') =>
          LET r == last'.roomCode
              remaining == AtLeastZero(games[r].timerEndTime - now)
          IN
          /\ Len(out') >= 1
          /\ IsBroadcast(out'[1], r, "timerUpdate")
          /\ out'[1].data.timeRemaining = remaining
          /\ out'[1].data.currentTurn = games[r].currentTurn
          /\ IF remaining = 0
             THEN /\ Len(out') = 2
                  /\ IsBroadcast(out'[2], r, "turnChanged")
                  /\ out'[2].data.currentTurn =
                        CyclicSuccessor[games[r].currentTurn]
                  /\ games'[r].currentTurn =
                        CyclicSuccessor[games[r].currentTurn]
                  /\ games'[r].timerEndTime = now' + 15000
             ELSE /\ Len(out') = 1
                  /\ NothingChanged]_vars

\* A tick has just found the deadline 60 ms in the past: it reported a
\* remaining time of 0 for seat 1, then announced seat 2's turn.
C17_Witness ==
    /\ last.op = "timerTick"
    /\ last.result = "expired"
    /\ now = 15060
    /\ Len(out) = 2
    /\ out[1].event = "timerUpdate"
    /\ out[1].data.timeRemaining = 0
    /\ out[1].data.currentTurn = 1
    /\ out[2].event = "turnChanged"
    /\ out[2].data.currentTurn = 2

\* ------------------------------------------------------------------
\* C18
\* ------------------------------------------------------------------
\* C18: in every state, every room's currentTurn is 1, 2 or 3, and the room
\* that a createGame or a startGame has just acted on has currentTurn 1.
C18_TurnInRange ==
    /\ \A r \in DOMAIN games : games[r].currentTurn \in {1, 2, 3}
    /\ (last.op \in {"createGame", "startGame"} /\ last.result = "ok") =>
          /\ last.roomCode \in DOMAIN games
          /\ games[last.roomCode].currentTurn = 1

\* A startGame has just been performed in the middle of a running game
\* (a countdown loop was live and seat 1 had selected): the turn, which
\* was seat 2's, is seat 1's again.
C18_Witness ==
    /\ last.op = "startGame"
    /\ last.result = "ok"
    /\ intervals[last.roomCode] = 2
    /\ games[last.roomCode].rosters[1] # <<>>
    /\ games[last.roomCode].rosters[2] = <<>>
    /\ games[last.roomCode].rosters[3] = <<>>
    /\ games[last.roomCode].currentTurn = 1

\* ------------------------------------------------------------------
\* C19
\* ------------------------------------------------------------------
\* The roster entries <<seat, position>> of room r that the step has put
\* there or has given another payload.
Written(r) ==
    {e \in Seats \X Positions :
        /\ e[2] \in DOMAIN games'[r].rosters[e[1]]
        /\ \/ e[2] \notin DOMAIN games[r].rosters[e[1]]
           \/ games'[r].rosters[e[1]][e[2]] # games[r].rosters[e[1]][e[2]]}

\* C19: handlers and ticks run one at a time, so that in every step and in
\* every room, a roster entry is written only by a successful selectPlayer
\* on that room; such a step writes no entry but the one of the seat that
\* is currentTurn when the step begins, and it changes currentTurn itself:
\* no second write can come before the turn has changed.
C19_OneWritePerTurn ==
    [][\A r \in DOMAIN games \cap DOMAIN games' :
          LET wrote == /\ last'.op = "selectPlayer"
                       /\ last'.result = "ok"
                       /\ last'.roomCode = r
          IN
          /\ Written(r) # {} => wrote
          /\ wrote =>
                /\ Written(r) \subseteq
                      {<<games[r].currentTurn, last'.positionId>>}
                /\ last'.positionId \in
                      DOMAIN games'[r].rosters[games[r].currentTurn]
                /\ games'[r].currentTurn # games[r].currentTurn]_vars

\* Seat 2 has just written its roster while the countdown runs, after seat
\* 1 wrote its own: two writes, each on its seat's turn.
C19_Witness ==
    /\ last.op = "selectPlayer"
    /\ last.result = "ok"
    /\ intervals[last.roomCode] > 0
    /\ games[last.roomCode].rosters[1] # <<>>
    /\ games[last.roomCode].rosters[2] # <<>>
    /\ games[last.roomCode].currentTurn = 3

\* ------------------------------------------------------------------
\* C20
\* ------------------------------------------------------------------
\* In the games map g and the participant index idx, connection c holds a
\* seat of room r or has its record bound to r.
SeatedIn(g, idx, c, r) ==
    \/ r \in DOMAIN g /\ \E i \in Seats : g[r].players[i].id = c
    \/ c \in DOMAIN idx /\ idx[c].roomId = r

\* C20: an event handled for room A (a join, start, select, skip or tick
\* of A, or the disconnect of a connection whose record is bound to A)
\* leaves every other room as it was, and none of its room-wide broadcasts
\* is delivered to a connection that is seated in another room and not in
\* A.
C20_RoomsIndependent ==
    [][(last'.op \in {"joinGame", "startGame", "selectPlayer", "skipTurn",
                      "timerTick", "disconnect"}
        /\ last'.roomCode \in RoomCodes) =>
          LET a == last'.roomCode IN
          /\ \A b \in DOMAIN games \ {a} :
                b \in DOMAIN games' /\ games'[b] = games[b]
          /\ \A i \in DOMAIN out' :
                out'[i].to = "room" =>
                   /\ out'[i].target = a
                   /\ \A c \in out'[i].rcpt :
                         (\E b \in RoomCodes \ {a} :
                             SeatedIn(games', players', c, b))
                         => SeatedIn(games', players', c, a)]_vars

\* ------------------------------------------------------------------
\* C16
\* ------------------------------------------------------------------
\* The step ends a countdown loop started for room code r (clearInterval
\* in the callback). Loops are started by startGame only, one for each
\* startGame performed on a room registered under r.
CountdownEnds(r) == intervals'[r] < intervals[r]

\* C16: once startGame has been performed on a room, its countdown never
\* terminates: no step ever ends a countdown loop, whatever the clients do
\* or stop doing. (A loop that lives ticks every 100 ms and advances the
\* turn at every expiry, C6, so the turn changes without end as long as
\* time passes; a loop that has ended advances no turn any more.)
C16_CountdownNeverEnds ==
    [][\A r \in RoomCodes : ~CountdownEnds(r)]_vars
====
